---- MODULE Spec2Model ----
(***************************************************************************)
(* State-machine model of the EmPOWER Light Virtual Access Point (LVAP),   *)
(* empower/core/lvap.py: the downlink/uplink port tables of one LVAP, its  *)
(* virtual ports, its client attributes, and the messages and flow-table   *)
(* calls each operation issues; and of the summary trigger module,         *)
(* empower/triggers/summary.py: the Summary modules of one SummaryWorker,  *)
(* their periodic request, their teardown, the decoding of a response and  *)
(* the worker's handling of a WTP that says bye.                           *)
(***************************************************************************)
EXTENDS Integers, Sequences, FiniteSets, TLC

\* ------------------------------------------------------------------ bounds

\* association ids range over 0..MaxAssocId
MaxAssocId == 1

\* the uplink table is filled directly up to MaxUplink entries
MaxUplink == 2

\* at most MaxChanged client attributes are away from their initial values
MaxChanged == 1

\* at most MaxClosed connections are closed at a time
MaxClosed == 1

\* at most MaxAbsent WTPs have no connection object at a time
MaxAbsent == 1

\* the worker owns the modules 1..MaxModules
MaxModules == 2

\* ---------------------------------------------------------------- universe

WTPS == {"w1", "w2"}

ResourceBlock(radio, hwaddr, channel, band) ==
    [radio |-> radio, hwaddr |-> hwaddr, channel |-> channel, band |-> band]

\* w1 has one radio; w2 has a radio on the channel and band of w1's radio and
\* a radio on the same channel in another band.
B1 == ResourceBlock("w1", "hw1", 1, "L20")
B2 == ResourceBlock("w2", "hw2", 1, "L20")
B3 == ResourceBlock("w2", "hw3", 1, "HT20")

AllBlocks == {B1, B2, B3}

NoBlock == ResourceBlock("-", "-", 0, "-")

\* the network ports of each WTP (wtp.ports): port id and interface name
WtpPorts(w) ==
    IF w = "w1"
    THEN {[port_id |-> 1, iface |-> "empower0"], [port_id |-> 2, iface |-> "eth0"]}
    ELSE {[port_id |-> 3, iface |-> "empower0"]}

ZeroAddr == "00:00:00:00:00:00"
Encaps   == {ZeroAddr, "aa:bb:cc:dd:ee:ff"}
Ssids    == {"None", "s1"}
SsidLists == {<<>>, <<"s1">>}
AssocIds == 0..MaxAssocId
PortCfgs == {"default", "custom"}

NoAttrs == [encap |-> "-", assoc_id |-> 0, ssid |-> "-", ssids |-> <<>>]

InitAttrs == [encap |-> ZeroAddr, assoc_id |-> 0, ssid |-> "None", ssids |-> <<>>]

Changed(a) ==
    Cardinality({f \in {"encap", "assoc_id", "ssid", "ssids"} : a[f] # InitAttrs[f]})

\* the summary modules: their ids, the tenants they belong to, and a
\* Summary as its constructor leaves it (block None, no frames)
ModIds    == 1..MaxModules
TenantIds == {"t1"}

DEFAULT_LIMIT  == -1
DEFAULT_PERIOD == 2000

NewSummary ==
    [tenant_id |-> "t1", block |-> NoBlock, limit |-> DEFAULT_LIMIT,
     period |-> DEFAULT_PERIOD, frames |-> <<>>]

VARIABLES
    downlink,   \* LVAP._downlink: ResourceBlock -> port configuration
    uplink,     \* LVAP._uplink:   ResourceBlock -> port configuration
    ports,      \* LVAP.__ports:   virtual port index -> virtual port
    attrs,      \* LVAP._encap, _assoc_id, _ssid, _ssids
    supports,   \* wtp.supports of every WTP (a ResourcePool object)
    closed,     \* the WTPs whose connection is closed
    absent,     \* the WTPs that have no connection (wtp.connection is None)
    tenants,    \* RUNTIME.tenants: tenant id -> tenant.wtps
    modules,    \* the ids in worker.modules (the registry)
    summaries,  \* the Summary objects, by module id
    inbound,    \* the responses in flight from the WTPs to the worker
    callbacks,  \* the callback invocations of the last call
    log,        \* messages written and flow-table calls made by the last call
    call        \* the last call: operation, argument, outcome, and a flag
                \* that flips when a call repeats the one before it with the
                \* same outcome in the same state

lvapVars    == <<downlink, uplink, ports, attrs>>
summaryVars == <<tenants, modules, summaries, inbound, callbacks>>

vars == <<downlink, uplink, ports, attrs, supports, closed, absent, tenants,
          modules, summaries, inbound, callbacks, log, call>>

\* ------------------------------------------------------- events of a call

\* an event: a message written on the connection of `wtp` (add_lvap, del_lvap,
\* set_port; tbl names the table whose entry it is about, mask is the flag an
\* add_lvap carries, lvap the client attributes it carries), a call of the
\* flow-table collaborator, or a run of set_ports
Ev(e, w, b, t, m, a, p) ==
    [ev |-> e, wtp |-> w, block |-> b, tbl |-> t, mask |-> m, lvap |-> a,
     port_id |-> p]

IsAdd(e)  == e.ev = "add_lvap"
IsDel(e)  == e.ev = "del_lvap"
IsWire(e) == e.ev \in {"add_lvap", "del_lvap", "set_port"}
IsFlow(e) == e.ev \in {"add_station_flows", "remove_station_flows"}

\* the snapshot of the model's state that the operations work on
Cur == [downlink |-> downlink, uplink |-> uplink, ports |-> ports,
        attrs |-> attrs, supports |-> supports, closed |-> closed,
        log |-> <<>>, result |-> "ok", path |-> "-"]

\* a write on the connection of WTP w: a closed connection drops it
Send(s, w, e) ==
    IF w \in s.closed THEN s ELSE [s EXCEPT !.log = Append(@, e)]

\* ------------------------------------------------------------ port tables

Put(t, k, v) == [b \in (DOMAIN t) \cup {k} |-> IF b = k THEN v ELSE t[b]]
Drop(t, k)   == [b \in (DOMAIN t) \ {k} |-> t[b]]
EmptyTable   == [b \in {} |-> "default"]

DOWNLINK_SET_MASK == "replace"
UPLINK_SET_MASK   == "merge"

\* DownlinkSetItem without the one-entry cap
DownlinkSetItem_NoCap(s, key, value) ==
    IF key \in DOMAIN s.downlink
    THEN Send([s EXCEPT !.downlink = Put(@, key, value)], key.radio,
              Ev("set_port", key.radio, key, "downlink", "-", NoAttrs, 0))
    ELSE Send(Send([s EXCEPT !.downlink = Put(@, key, value)], key.radio,
                   Ev("add_lvap", key.radio, key, "downlink", DOWNLINK_SET_MASK, s.attrs, 0)),
              key.radio,
              Ev("set_port", key.radio, key, "downlink", "-", NoAttrs, 0))

\* DownlinkPort.__setitem__: update an existing entry (port update), refuse
\* a second entry, else create the entry (add lvap, then port update)
DownlinkSetItem(s, key, value) ==
    IF key \in DOMAIN s.downlink
    THEN Send([s EXCEPT !.downlink = Put(@, key, value)], key.radio,
              Ev("set_port", key.radio, key, "downlink", "-", NoAttrs, 0))
    ELSE IF Cardinality(DOMAIN s.downlink) >= 1
    THEN [s EXCEPT !.result = "ValueError"]
    ELSE Send(Send([s EXCEPT !.downlink = Put(@, key, value)], key.radio,
                   Ev("add_lvap", key.radio, key, "downlink", DOWNLINK_SET_MASK, s.attrs, 0)),
              key.radio,
              Ev("set_port", key.radio, key, "downlink", "-", NoAttrs, 0))

\* DownlinkPort.__delitem__: remove the entry and send del lvap
DownlinkDelItem(s, key) ==
    IF key \notin DOMAIN s.downlink
    THEN [s EXCEPT !.result = "KeyError"]
    ELSE Send([s EXCEPT !.downlink = Drop(@, key)], key.radio,
              Ev("del_lvap", key.radio, key, "downlink", "-", NoAttrs, 0))

\* UplinkPort.__setitem__: as the downlink table, without the one-entry cap
UplinkSetItem(s, key, value) ==
    IF key \in DOMAIN s.uplink
    THEN Send([s EXCEPT !.uplink = Put(@, key, value)], key.radio,
              Ev("set_port", key.radio, key, "uplink", "-", NoAttrs, 0))
    ELSE Send(Send([s EXCEPT !.uplink = Put(@, key, value)], key.radio,
                   Ev("add_lvap", key.radio, key, "uplink", UPLINK_SET_MASK, s.attrs, 0)),
              key.radio,
              Ev("set_port", key.radio, key, "uplink", "-", NoAttrs, 0))

\* UplinkPort.__delitem__
UplinkDelItem(s, key) ==
    IF key \notin DOMAIN s.uplink
    THEN [s EXCEPT !.result = "KeyError"]
    ELSE Send([s EXCEPT !.uplink = Drop(@, key)], key.radio,
              Ev("del_lvap", key.radio, key, "uplink", "-", NoAttrs, 0))

\* ResourcePool.__and__: the blocks of pool a with the channel and band of
\* some block of pool b
PoolAnd(a, b) ==
    {x \in a : \E y \in b : x.channel = y.channel /\ x.band = y.band}

\* ------------------------------------------------------------- arguments

MkArg(kind, pool, owner, val, num, list) ==
    [kind |-> kind, pool |-> pool, owner |-> owner, val |-> val,
     num |-> num, list |-> list]

NoneArg        == MkArg("None", {}, "-", "-", 0, <<>>)
PoolArg(S)     == MkArg("ResourcePool", S, "-", "-", 0, <<>>)
\* the pool object wtp.supports of WTP w itself, not a copy of it
SupportsArg(w) == MkArg("ResourcePool", supports[w], w, "-", 0, <<>>)
BlockArg(b)    == MkArg("ResourceBlock", {b}, "-", "-", 0, <<>>)
\* a value of another type: the empty string or a non-empty string
OtherArg(v)    == MkArg("str", {}, "-", v, 0, <<>>)
WtpArg(w)      == MkArg("WTP", {}, "-", w, 0, <<>>)
ValArg(v)      == MkArg("value", {}, "-", v, 0, <<>>)
NumArg(n)      == MkArg("int", {}, "-", "-", n, <<>>)
ListArg(l)     == MkArg("list", {}, "-", "-", 0, l)
ItemArg(b, v)  == MkArg("item", {b}, "-", v, 0, <<>>)

\* Python truth value of an argument: None, an empty pool (a set) and an
\* empty string are false, a ResourceBlock object is true
Truthy(arg) ==
    CASE arg.kind = "None"          -> FALSE
      [] arg.kind = "ResourcePool"  -> arg.pool # {}
      [] arg.kind = "ResourceBlock" -> TRUE
      [] OTHER                      -> arg.val # ""

\* the orders in which a set can be iterated
Orders(S) ==
    {o \in [1..Cardinality(S) -> S] : \A i, j \in 1..Cardinality(S) : o[i] = o[j] => i = j}

\* ------------------------------------------------------------------ LVAP

NoPorts == [i \in {} |-> [dpid |-> "-", ovs_port_id |-> 0, lvap |-> "-"]]

LvapAddr == "lvap"

\* LVAP.wtp (getter): the radio of the downlink block, None when unbound
wtp(s) ==
    IF DOMAIN s.downlink = {} THEN "None"
    ELSE (CHOOSE b \in DOMAIN s.downlink : TRUE).radio

\* set_ports that keeps the virtual ports it finds
set_ports_KeepOld(s) ==
    LET w     == wtp(s)
        emp   == {p \in WtpPorts(w) : p.iface = "empower0"}
        s1    == [s EXCEPT !.log = Append(@, Ev("set_ports", w, NoBlock, "-", "-", NoAttrs, 0))]
    IN  IF w = "None" \/ emp = {} \/ 0 \in DOMAIN s.ports THEN s1
        ELSE LET port == CHOOSE p \in emp : TRUE
             IN  [s1 EXCEPT !.ports =
                    [i \in {0} |-> [dpid |-> w, ovs_port_id |-> port.port_id,
                                    lvap |-> LvapAddr]]]

\* LVAP.set_ports
set_ports(s) ==
    LET w     == wtp(s)
        emp   == {p \in WtpPorts(w) : p.iface = "empower0"}
        s1    == [s EXCEPT !.ports = NoPorts,
                           !.log = Append(@, Ev("set_ports", w, NoBlock, "-", "-", NoAttrs, 0))]
    IN  IF w = "None" \/ emp = {} THEN s1
        ELSE LET port == CHOOSE p \in emp : TRUE
             IN  [s1 EXCEPT !.ports =
                    [i \in {0} |-> [dpid |-> w, ovs_port_id |-> port.port_id,
                                    lvap |-> LvapAddr]]]

\* LVAP.set_tables
set_tables(s) ==
    LET w == wtp(s)
    IN  IF w = "None" THEN s
        ELSE IF 0 \notin DOMAIN s.ports THEN [s EXCEPT !.result = "KeyError"]
        ELSE [s EXCEPT !.log = Append(@,
                Ev("add_station_flows", w, NoBlock, "-", "-", NoAttrs,
                   s.ports[0].ovs_port_id))]

\* LVAP.clear_tables
clear_tables(s) ==
    LET w == wtp(s)
    IN  IF w = "None" THEN s
        ELSE [s EXCEPT !.log = Append(@,
                Ev("remove_station_flows", w, NoBlock, "-", "-", NoAttrs, 0))]

\* the two loops that close the attribute setters: an add lvap message for
\* every downlink port, then for every uplink port (iterated in `order`)
RECURSIVE SendAddUplinks(_, _)
SendAddUplinks(s, order) ==
    IF order = <<>> THEN s
    ELSE SendAddUplinks(
            Send(s, Head(order).radio,
                 Ev("add_lvap", Head(order).radio, Head(order), "uplink",
                    UPLINK_SET_MASK, s.attrs, 0)),
            Tail(order))

SendAddAll(s, order) ==
    LET s1 == IF DOMAIN s.downlink = {} THEN s
              ELSE LET b == CHOOSE b \in DOMAIN s.downlink : TRUE
                   IN  Send(s, b.radio,
                            Ev("add_lvap", b.radio, b, "downlink", DOWNLINK_SET_MASK,
                               s.attrs, 0))
    IN  SendAddUplinks(s1, order)

\* the encap setter without its equality test
encap_setter_NoEqualCheck(s, encap, order) ==
    LET e == IF encap = "None" THEN ZeroAddr ELSE encap
    IN  SendAddAll([s EXCEPT !.attrs.encap = e], order)

\* LVAP.encap (setter)
encap_setter(s, encap, order) ==
    LET e == IF encap = "None" THEN ZeroAddr ELSE encap
    IN  IF s.attrs.encap = e THEN s
        ELSE SendAddAll([s EXCEPT !.attrs.encap = e], order)

\* LVAP.assoc_id (setter)
assoc_id_setter(s, assoc_id, order) ==
    IF s.attrs.assoc_id = assoc_id THEN s
    ELSE SendAddAll([s EXCEPT !.attrs.assoc_id = assoc_id], order)

\* LVAP.ssids (setter)
ssids_setter(s, ssids, order) ==
    [s EXCEPT !.attrs.ssids = ssids]

\* LVAP.ssid (setter)
ssid_setter(s, ssid, order) ==
    IF s.attrs.ssid = ssid THEN s
    ELSE SendAddAll([s EXCEPT !.attrs.ssid = ssid], order)

\* the loops of the downlink setter over the keys of a table
RECURSIVE DelUplinks(_, _)
DelUplinks(s, order) ==
    IF order = <<>> \/ s.result # "ok" THEN s
    ELSE DelUplinks(UplinkDelItem(s, Head(order)), Tail(order))

DelDownlinks(s) ==
    IF DOMAIN s.downlink = {} THEN s
    ELSE DownlinkDelItem(s, CHOOSE b \in DOMAIN s.downlink : TRUE)

RECURSIVE AddUplinks(_, _)
AddUplinks(s, order) ==
    IF order = <<>> \/ s.result # "ok" THEN s
    ELSE AddUplinks(UplinkSetItem(s, Head(order), "default"), Tail(order))

\* pool.pop() on the argument's pool: block d leaves the pool; when the pool
\* is the supports pool of a WTP, that pool loses the block
Pop(s, arg, d) ==
    IF arg.owner = "-" THEN s
    ELSE [s EXCEPT !.supports[arg.owner] = @ \ {d}]

\* Refresh without the flow-table programming
Refresh_NoTables(s) ==
    set_ports([s EXCEPT !.path = "refresh"])

\* the refresh branch of the downlink setter
Refresh(s) ==
    LET s1 == set_ports([s EXCEPT !.path = "refresh"])
        s2 == clear_tables(s1)
    IN  set_tables(s2)

\* Rebind that binds every block of the pool, the popped one too, as uplink
Rebind_NoPop(s, arg, d, delOrder, addOrder) ==
    LET s1 == clear_tables([s EXCEPT !.path = "rebind"])
        s2 == DelDownlinks(s1)
        s3 == DelUplinks(s2, delOrder)
        s4 == IF d \notin arg.pool THEN [s3 EXCEPT !.result = "KeyError"]
              ELSE DownlinkSetItem(s3, d, "default")
        s5 == IF s4.result # "ok" THEN s4 ELSE set_ports(s4)
        s6 == IF s5.result # "ok" THEN s5 ELSE set_tables(s5)
    IN  AddUplinks(s6, <<d>> \o addOrder)

\* Rebind that leaves the old uplink entries in place
Rebind_KeepUplinks(s, arg, d, delOrder, addOrder) ==
    LET s1 == clear_tables([s EXCEPT !.path = "rebind"])
        s2 == DelDownlinks(s1)
        s4 == IF d \notin arg.pool THEN [s2 EXCEPT !.result = "KeyError"]
              ELSE DownlinkSetItem(Pop(s2, arg, d), d, "default")
        s5 == IF s4.result # "ok" THEN s4 ELSE set_ports(s4)
        s6 == IF s5.result # "ok" THEN s5 ELSE set_tables(s5)
    IN  AddUplinks(s6, addOrder)

\* Rebind that binds the rest of the pool as uplink before the new downlink
Rebind_UplinksFirst(s, arg, d, delOrder, addOrder) ==
    LET s1 == clear_tables([s EXCEPT !.path = "rebind"])
        s2 == DelDownlinks(s1)
        s3 == DelUplinks(s2, delOrder)
        s4 == AddUplinks(s3, addOrder)
        s5 == IF d \notin arg.pool THEN [s4 EXCEPT !.result = "KeyError"]
              ELSE DownlinkSetItem(Pop(s4, arg, d), d, "default")
        s6 == IF s5.result # "ok" THEN s5 ELSE set_ports(s5)
    IN  IF s6.result # "ok" THEN s6 ELSE set_tables(s6)

\* the rebind branch of the downlink setter: d is the block pool.pop()
\* returns, delOrder and addOrder the iteration orders of the uplink keys
\* and of the rest of the pool
Rebind(s, arg, d, delOrder, addOrder) ==
    LET s1 == clear_tables([s EXCEPT !.path = "rebind"])
        s2 == DelDownlinks(s1)
        s3 == DelUplinks(s2, delOrder)
        s4 == IF d \notin arg.pool THEN [s3 EXCEPT !.result = "KeyError"]
              ELSE DownlinkSetItem(Pop(s3, arg, d), d, "default")
        s5 == IF s4.result # "ok" THEN s4 ELSE set_ports(s4)
        s6 == IF s5.result # "ok" THEN s5 ELSE set_tables(s5)
    IN  AddUplinks(s6, addOrder)

\* the downlink setter without its null-operation return
downlink_setter_NoNullCheck(s, arg, d, delOrder, addOrder) ==
    IF arg.kind \notin {"ResourcePool", "ResourceBlock"}
    THEN [s EXCEPT !.result = "TypeError"]
    ELSE IF (DOMAIN s.downlink) \cup (DOMAIN s.uplink) = arg.pool
    THEN Refresh(s)
    ELSE Rebind(s, arg, d, delOrder, addOrder)

\* the downlink setter returning silently on a value of another type
downlink_setter_NoTypeCheck(s, arg, d, delOrder, addOrder) ==
    IF ~Truthy(arg) THEN [s EXCEPT !.path = "null"]
    ELSE IF arg.kind \notin {"ResourcePool", "ResourceBlock"}
    THEN [s EXCEPT !.path = "null"]
    ELSE IF (DOMAIN s.downlink) \cup (DOMAIN s.uplink) = arg.pool
    THEN Refresh(s)
    ELSE Rebind(s, arg, d, delOrder, addOrder)

\* LVAP.downlink (setter)
downlink_setter(s, arg, d, delOrder, addOrder) ==
    IF ~Truthy(arg) THEN [s EXCEPT !.path = "null"]
    ELSE IF arg.kind \notin {"ResourcePool", "ResourceBlock"}
    THEN [s EXCEPT !.result = "TypeError"]
    ELSE IF (DOMAIN s.downlink) \cup (DOMAIN s.uplink) = arg.pool
    THEN Refresh(s)
    ELSE Rebind(s, arg, d, delOrder, addOrder)

\* LVAP.scheduled_on (setter)
scheduled_on_setter(s, arg, d, delOrder, addOrder) ==
    downlink_setter(s, arg, d, delOrder, addOrder)

\* the wtp setter popping the matching pool without testing it
wtp_setter_PopEmpty(s, w, m, delOrder) ==
    IF DOMAIN s.downlink = {} THEN [s EXCEPT !.result = "StopIteration"]
    ELSE LET default_block == CHOOSE b \in DOMAIN s.downlink : TRUE
             matching      == PoolAnd(s.supports[w], {default_block})
         IN  IF matching # {}
             THEN scheduled_on_setter(s, BlockArg(m), m, delOrder, <<>>)
             ELSE [s EXCEPT !.result = "KeyError"]

\* the wtp setter scheduling the LVAP on its own block, not on the matching one
wtp_setter_KeepBlock(s, w, m, delOrder) ==
    IF DOMAIN s.downlink = {} THEN [s EXCEPT !.result = "StopIteration"]
    ELSE LET default_block == CHOOSE b \in DOMAIN s.downlink : TRUE
             matching      == PoolAnd(s.supports[w], {default_block})
         IN  IF matching # {}
             THEN scheduled_on_setter(s, BlockArg(default_block), default_block,
                                      delOrder, <<>>)
             ELSE scheduled_on_setter(s, NoneArg, NoBlock, delOrder, <<>>)

\* LVAP.wtp (setter): m is the block matching.pop() returns
wtp_setter(s, w, m, delOrder) ==
    IF DOMAIN s.downlink = {} THEN [s EXCEPT !.result = "StopIteration"]
    ELSE LET default_block == CHOOSE b \in DOMAIN s.downlink : TRUE
             matching      == PoolAnd(s.supports[w], {default_block})
         IN  IF matching # {}
             THEN scheduled_on_setter(s, BlockArg(m), m, delOrder, <<>>)
             ELSE scheduled_on_setter(s, NoneArg, NoBlock, delOrder, <<>>)

\* the Port object stored in a downlink entry, seen as a dictionary key: it
\* is no ResourceBlock, so it equals no key of the table
PortKey(v) == [radio |-> "-", hwaddr |-> v, channel |-> 0, band |-> "Port"]

\* port setter: nothing on an unbound LVAP; else the first of
\* scheduled_on.values(), a Port, is used as the key of the assignment
port_setter(s, value) ==
    IF DOMAIN s.downlink = {} THEN [s EXCEPT !.path = "null"]
    ELSE LET default_block ==
                 PortKey(s.downlink[CHOOSE b \in DOMAIN s.downlink : TRUE])
         IN  DownlinkSetItem([s EXCEPT !.path = "update"], default_block, value)

\* ---------------------------------------------------------------- actions

\* the record of a call; `same` tells that the call left everything as it was
Call(op, arg, result, path, same) ==
    [op |-> op, arg |-> arg, result |-> result, path |-> path,
     again |-> IF /\ same
                  /\ call.op = op
                  /\ call.arg = arg
                  /\ call.result = result
                  /\ call.path = path
               THEN 1 - call.again ELSE 0]

FirstCall(op, arg, result, path) ==
    [op |-> op, arg |-> arg, result |-> result, path |-> path, again |-> 0]

Commit(s, op, arg) ==
    /\ Changed(s.attrs) <= MaxChanged
    /\ downlink' = s.downlink
    /\ uplink'   = s.uplink
    /\ ports'    = s.ports
    /\ attrs'    = s.attrs
    /\ supports' = s.supports
    /\ log'      = s.log
    /\ call'     = Call(op, arg, s.result, s.path,
                          /\ s.downlink = downlink
                          /\ s.uplink = uplink
                          /\ s.ports = ports
                          /\ s.attrs = attrs
                          /\ s.supports = supports
                          /\ s.log = log)
    /\ UNCHANGED <<closed, absent>>
    /\ UNCHANGED summaryVars

\* the arguments of lvap.downlink = ... (pools and values of other types) and
\* of its alias lvap.scheduled_on = ... (single blocks)
DownlinkArgs ==
    {NoneArg} \cup {PoolArg(S) : S \in SUBSET AllBlocks}
              \cup {OtherArg(v) : v \in {"", "x"}}

ScheduledOnArgs ==
    {NoneArg, PoolArg({})} \cup {BlockArg(b) : b \in AllBlocks}


\* the choices a call leaves open: the block pop() returns and the iteration
\* orders of the loops it runs; a call that runs none of them has one choice
Rebinds(arg) ==
    /\ Truthy(arg)
    /\ arg.kind \in {"ResourcePool", "ResourceBlock"}
    /\ (DOMAIN downlink) \cup (DOMAIN uplink) # arg.pool

PopChoices(arg)  == IF Rebinds(arg) THEN arg.pool ELSE {NoBlock}
DelOrders(arg)   == IF Rebinds(arg) THEN Orders(DOMAIN uplink) ELSE {<<>>}
AddOrders(arg, d) == IF Rebinds(arg) THEN Orders(arg.pool \ {d}) ELSE {<<>>}

\* lvap.downlink = arg
SetDownlink ==
    \E arg \in DownlinkArgs :
    \E d \in PopChoices(arg) :
    \E delOrder \in DelOrders(arg) :
    \E addOrder \in AddOrders(arg, d) :
        Commit(downlink_setter(Cur, arg, d, delOrder, addOrder), "downlink", arg)

\* lvap.downlink = wtp.supports, the pool object of WTP w itself
SetDownlinkSupports ==
    \E w \in WTPS :
    \E d \in PopChoices(SupportsArg(w)) :
    \E delOrder \in DelOrders(SupportsArg(w)) :
    \E addOrder \in AddOrders(SupportsArg(w), d) :
        Commit(downlink_setter(Cur, SupportsArg(w), d, delOrder, addOrder),
               "downlink", SupportsArg(w))

\* lvap.scheduled_on = arg
SetScheduledOn ==
    \E arg \in ScheduledOnArgs :
    \E d \in PopChoices(arg) :
    \E delOrder \in DelOrders(arg) :
    \E addOrder \in AddOrders(arg, d) :
        Commit(scheduled_on_setter(Cur, arg, d, delOrder, addOrder), "scheduled_on", arg)

\* the pool the wtp setter computes for target w
Matching(w) ==
    IF DOMAIN downlink = {} THEN {} ELSE PoolAnd(supports[w], DOMAIN downlink)

\* lvap.wtp = w
SetWtp ==
    \E w \in WTPS :
    \E m \in IF Matching(w) = {} THEN {NoBlock} ELSE Matching(w) :
    \E delOrder \in IF Matching(w) = {} THEN {<<>>} ELSE DelOrders(BlockArg(m)) :
        Commit(wtp_setter(Cur, w, m, delOrder), "wtp", WtpArg(w))

\* lvap.port = v
SetPort ==
    \E v \in PortCfgs :
        Commit(port_setter(Cur, v), "port", ValArg(v))

\* lvap.encap = e
SetEncap ==
    \E e \in Encaps \cup {"None"} :
    \E order \in Orders(DOMAIN uplink) :
        Commit(encap_setter(Cur, e, order), "encap", ValArg(e))

\* lvap.assoc_id = a
SetAssocId ==
    \E a \in AssocIds :
    \E order \in Orders(DOMAIN uplink) :
        Commit(assoc_id_setter(Cur, a, order), "assoc_id", NumArg(a))

\* lvap.ssids = l
SetSsids ==
    \E l \in SsidLists :
    \E order \in Orders(DOMAIN uplink) :
        Commit(ssids_setter(Cur, l, order), "ssids", ListArg(l))

\* lvap.ssid = x
SetSsid ==
    \E x \in Ssids :
    \E order \in Orders(DOMAIN uplink) :
        Commit(ssid_setter(Cur, x, order), "ssid", ValArg(x))

\* lvap.downlink[b] = port, lvap.uplink[b] = port, del lvap.downlink[b],
\* del lvap.uplink[b]: the tables used directly
DownlinkInsert ==
    \E b \in AllBlocks, v \in PortCfgs :
        Commit(DownlinkSetItem(Cur, b, v), "downlink_setitem", ItemArg(b, v))

DownlinkDelete ==
    \E b \in AllBlocks :
        Commit(DownlinkDelItem(Cur, b), "downlink_delitem", ItemArg(b, "-"))

UplinkInsert ==
    \E b \in AllBlocks :
        /\ b \in DOMAIN uplink \/ Cardinality(DOMAIN uplink) < MaxUplink
        /\ Commit(UplinkSetItem(Cur, b, "default"), "uplink_setitem", ItemArg(b, "default"))

UplinkDelete ==
    \E b \in AllBlocks :
        Commit(UplinkDelItem(Cur, b), "uplink_delitem", ItemArg(b, "-"))

\* the connection of a WTP closes, or the WTP connects again
ConnectionClose ==
    \E w \in WTPS \ (closed \cup absent) :
        /\ Cardinality(closed) < MaxClosed
        /\ closed' = closed \cup {w}
        /\ log' = <<>>
        /\ callbacks' = <<>>
        /\ call' = FirstCall("close", WtpArg(w), "ok", "-")
        /\ UNCHANGED <<lvapVars, supports, absent, tenants, modules, summaries, inbound>>

ConnectionOpen ==
    \E w \in closed \cup absent :
        /\ closed' = closed \ {w}
        /\ absent' = absent \ {w}
        /\ log' = <<>>
        /\ callbacks' = <<>>
        /\ call' = FirstCall("open", WtpArg(w), "ok", "-")
        /\ UNCHANGED <<lvapVars, supports, tenants, modules, summaries, inbound>>

\* LVAP.__init__, with every WTP connected and its supports pool complete
Fresh ==
    [downlink |-> EmptyTable, uplink |-> EmptyTable, ports |-> NoPorts,
     attrs |-> InitAttrs,
     supports |-> [w \in WTPS |-> {b \in AllBlocks : b.radio = w}],
     closed |-> {}, log |-> <<>>, result |-> "ok", path |-> "-"]

StartsAs(s, op, arg) ==
    /\ downlink = s.downlink
    /\ uplink = s.uplink
    /\ ports = s.ports
    /\ attrs = s.attrs
    /\ supports = s.supports
    /\ closed = s.closed
    /\ absent = {}
    /\ tenants = [t \in TenantIds |-> WTPS]
    /\ modules = {}
    /\ summaries = [id \in ModIds |-> NewSummary]
    /\ inbound = <<>>
    /\ callbacks = <<>>
    /\ log = s.log
    /\ call = FirstCall(op, arg, s.result, s.path)

Init == StartsAs(Fresh, "init", NoneArg)

\* an LVAP as the controller spawns it: constructed, then scheduled on a block
InitBound ==
    \E b \in AllBlocks :
        StartsAs(scheduled_on_setter(Fresh, BlockArg(b), b, <<>>, <<>>),
                 "scheduled_on", BlockArg(b))

\* the binding of an LVAP: the setters and the tables used directly
Next ==
    \/ SetDownlink
    \/ SetScheduledOn
    \/ SetWtp
    \/ DownlinkInsert
    \/ DownlinkDelete
    \/ UplinkInsert
    \/ UplinkDelete
    \/ ConnectionClose
    \/ ConnectionOpen

Spec == Init /\ [][Next]_vars

\* the setters and the attribute updates on an LVAP that starts bound
NextBound ==
    \/ SetDownlink
    \/ SetScheduledOn
    \/ SetWtp
    \/ SetEncap
    \/ SetAssocId
    \/ SetSsids
    \/ SetSsid
    \/ ConnectionClose
    \/ ConnectionOpen

SpecBound == InitBound /\ [][NextBound]_vars

\* the client attributes of an LVAP, bound or not, with uplink entries
NextAttrs ==
    \/ SetScheduledOn
    \/ UplinkInsert
    \/ UplinkDelete
    \/ SetEncap
    \/ SetAssocId
    \/ SetSsids
    \/ SetSsid
    \/ ConnectionClose
    \/ ConnectionOpen

SpecAttrs == Init /\ [][NextAttrs]_vars

\* the port configuration of a binding: the port setter next to the direct
\* use of the downlink table
NextPort ==
    \/ SetScheduledOn
    \/ SetPort
    \/ DownlinkInsert
    \/ DownlinkDelete
    \/ ConnectionClose
    \/ ConnectionOpen

SpecPort == Init /\ [][NextPort]_vars

\* handovers that name their target by the supported pool of a WTP
NextPool ==
    \/ SetDownlinkSupports
    \/ SetScheduledOn
    \/ SetWtp
    \/ ConnectionClose
    \/ ConnectionOpen

SpecPool == Init /\ [][NextPool]_vars

\* ------------------------------------------------------ the summary module

\* w2 has a second radio on the channel and band of its first one
B4 == ResourceBlock("w2", "hw4", 1, "L20")

SummaryBlocks   == AllBlocks \cup {B4}
SummarySupports == [w \in WTPS |-> {b \in SummaryBlocks : b.radio = w}]

BT_L20 == "L20"

PT_ADD_SUMMARY == 34
PT_SUMMARY     == 35
PT_DEL_SUMMARY == 36

ADD_SUMMARY_LENGTH == 30
DEL_SUMMARY_LENGTH == 12

\* the snapshot of the state that the operations of the module work on
CurS == [tenants |-> tenants, modules |-> modules, summaries |-> summaries,
         supports |-> supports, closed |-> closed, absent |-> absent,
         log |-> <<>>, callbacks |-> <<>>, result |-> "ok", path |-> "-"]

\* the request run_once builds and the teardown unload builds; `delivered`
\* tells whether the stream took the bytes
AddSummary(s, id, w) ==
    [ev |-> "add_summary", type |-> PT_ADD_SUMMARY, length |-> ADD_SUMMARY_LENGTH,
     wtp |-> w, module_id |-> id, block |-> s.summaries[id].block,
     limit |-> s.summaries[id].limit, period |-> s.summaries[id].period,
     delivered |-> TRUE]

DelSummary(s, id, w) ==
    [ev |-> "del_summary", type |-> PT_DEL_SUMMARY, length |-> DEL_SUMMARY_LENGTH,
     wtp |-> w, module_id |-> id, block |-> NoBlock, limit |-> 0, period |-> 0,
     delivered |-> TRUE]

\* the layout of the two messages: each field's name, width in bytes and
\* signedness, in the order of the struct
Field(name, bytes, signed) == [name |-> name, bytes |-> bytes, signed |-> signed]

ADD_SUMMARY ==
    <<Field("version", 1, FALSE), Field("type", 1, FALSE),
      Field("length", 2, FALSE), Field("seq", 4, FALSE),
      Field("module_id", 4, FALSE), Field("addr", 6, FALSE),
      Field("hwaddr", 6, FALSE), Field("channel", 1, FALSE),
      Field("band", 1, FALSE), Field("limit", 2, TRUE),
      Field("period", 2, FALSE)>>

DEL_SUMMARY ==
    <<Field("version", 1, FALSE), Field("type", 1, FALSE),
      Field("length", 2, FALSE), Field("seq", 4, FALSE),
      Field("module_id", 4, FALSE)>>

\* the byte size of an encoded message
RECURSIVE SizeOf(_)
SizeOf(struct) ==
    IF struct = <<>> THEN 0 ELSE Head(struct).bytes + SizeOf(Tail(struct))

FieldOf(struct, name) ==
    struct[CHOOSE i \in DOMAIN struct : struct[i].name = name]

\* the integers a field of the given width and signedness encodes
Fits(f, v) ==
    IF f.signed
    THEN -(2 ^ (8 * f.bytes - 1)) <= v /\ v < 2 ^ (8 * f.bytes - 1)
    ELSE 0 <= v /\ v < 2 ^ (8 * f.bytes)

\* struct.build(container) succeeds when the type, the length and the two
\* parameters of the message fit their fields
Builds(struct, msg) ==
    \A i \in DOMAIN struct :
        struct[i].name \in {"type", "length", "limit", "period"} =>
            Fits(struct[i], msg[struct[i].name])

\* wtp.connection.stream.write(msg): without a connection the attribute
\* access fails; a closed stream refuses the write
stream_write(s, w, msg) ==
    IF w \in s.absent THEN [s EXCEPT !.result = "AttributeError"]
    ELSE IF w \in s.closed
    THEN [s EXCEPT !.log = Append(@, [msg EXCEPT !.delivered = FALSE]),
                   !.result = "StreamClosedError"]
    ELSE [s EXCEPT !.log = Append(@, msg)]

\* worker.remove_module(module_id)
remove_module(s, id) == [s EXCEPT !.modules = @ \ {id}]

\* Summary.unload without the test of the connection
unload_NoConnectionCheck(s, id) ==
    LET s1 == remove_module(s, id)
        w  == s.summaries[id].block.radio
    IN  stream_write(s1, w, DelSummary(s1, id, w))

\* Summary.unload
unload(s, id) ==
    LET s1 == remove_module(s, id)
        w  == s.summaries[id].block.radio
    IN  IF w \in s1.absent \/ w \in s1.closed THEN s1
        ELSE stream_write(s1, w, DelSummary(s1, id, w))

\* Summary.run_once without the test of the WTP's membership in the tenant
run_once_NoWtpCheck(s, id) ==
    LET m == s.summaries[id]
        w == m.block.radio
    IN  IF m.tenant_id \notin DOMAIN s.tenants
        THEN unload([s EXCEPT !.path = "stale"], id)
        ELSE IF ~Builds(ADD_SUMMARY, AddSummary(s, id, w))
        THEN [s EXCEPT !.path = "send", !.result = "FieldError"]
        ELSE stream_write([s EXCEPT !.path = "send"], w, AddSummary(s, id, w))

\* Summary.run_once
run_once(s, id) ==
    LET m == s.summaries[id]
        w == m.block.radio
    IN  IF m.tenant_id \notin DOMAIN s.tenants
        THEN unload([s EXCEPT !.path = "stale"], id)
        ELSE IF w \notin s.tenants[m.tenant_id]
        THEN unload([s EXCEPT !.path = "stale"], id)
        ELSE IF ~Builds(ADD_SUMMARY, AddSummary(s, id, w))
        THEN [s EXCEPT !.path = "send", !.result = "FieldError"]
        ELSE stream_write([s EXCEPT !.path = "send"], w, AddSummary(s, id, w))

\* period setter
period_setter(s, id, value) ==
    IF value < 1000 THEN [s EXCEPT !.result = "ValueError"]
    ELSE [s EXCEPT !.summaries[id].period = value]

\* limit setter
limit_setter(s, id, value) ==
    IF value < -1 THEN [s EXCEPT !.result = "ValueError"]
    ELSE [s EXCEPT !.summaries[id].limit = value]

\* the values a decoded field takes: a float or an int, held as a count of
\* halves (int(r) / 2.0 is r halves, int(r) is 2r halves); a string or an int
Float(halves) == [float |-> TRUE, halves |-> halves]
Whole(n)      == [float |-> FALSE, halves |-> 2 * n]
Str(x)        == [kind |-> "str", str |-> x, int |-> 0]
Raw(n)        == [kind |-> "int", str |-> "", int |-> n]

\* the decoding of an entry that never halves the rate
DecodeEntry_NoHalving(band, recv) ==
    LET pt_type == IF recv[6] = 0 THEN "MNGT"
                   ELSE IF recv[6] = 4 THEN "CTRL"
                   ELSE IF recv[6] = 8 THEN "DATA"
                   ELSE "UNKN"
        pt_subtype == IF recv[7] \in {0, 16, 32, 48, 128}
                      THEN Str("NAMED") ELSE Raw(recv[7])
    IN  [tsft |-> recv[2], seq |-> recv[3], rssi |-> recv[4], rate |-> Whole(recv[5]),
         type |-> pt_type, subtype |-> pt_subtype, length |-> recv[8]]

\* an entry of a response is the sequence addr, tsft, seq, rssi, rate, type,
\* subtype, length: recv[i] of the code is recv[i + 1] here
DecodeEntry(band, recv) ==
    LET rate == IF band = BT_L20 THEN Float(recv[5]) ELSE Whole(recv[5])
        pt_type == IF recv[6] = 0 THEN "MNGT"
                   ELSE IF recv[6] = 4 THEN "CTRL"
                   ELSE IF recv[6] = 8 THEN "DATA"
                   ELSE "UNKN"
        pt_subtype == IF recv[7] = 0 THEN Str("ASSOC_REQ")
                      ELSE IF recv[7] = 16 THEN Str("ASSOC_RESP")
                      ELSE IF recv[7] = 32 THEN Str("AUTH_REQ")
                      ELSE IF recv[7] = 48 THEN Str("AUTH_RESP")
                      ELSE IF recv[7] = 128 THEN Str("BEACON")
                      ELSE Raw(recv[7])
    IN  [tsft |-> recv[2], seq |-> recv[3], rssi |-> recv[4], rate |-> rate,
         type |-> pt_type, subtype |-> pt_subtype, length |-> recv[8]]

\* the loop of handle_response over response.frames
RECURSIVE DecodeFrames(_, _, _)
DecodeFrames(band, frames, acc) ==
    IF frames = <<>> THEN acc
    ELSE DecodeFrames(band, Tail(frames), Append(acc, DecodeEntry(band, Head(frames))))

\* Module.handle_callback(module): the callback is called with the module
handle_callback(s, id) ==
    [s EXCEPT !.callbacks = Append(@, [module_id |-> id,
                                       frames |-> s.summaries[id].frames])]

\* Summary.handle_response keeping the frames of earlier responses
handle_response_Append(s, id, response) ==
    LET m == s.summaries[id]
        w == m.block.radio
    IN  IF m.tenant_id \notin DOMAIN s.tenants
        THEN unload([s EXCEPT !.path = "stale"], id)
        ELSE IF w \notin s.tenants[m.tenant_id]
        THEN unload([s EXCEPT !.path = "stale"], id)
        ELSE handle_callback(
                [s EXCEPT !.path = "decode",
                          !.summaries[id].frames =
                              DecodeFrames(m.block.band, response.frames, @)],
                id)

\* Summary.handle_response
handle_response(s, id, response) ==
    LET m == s.summaries[id]
        w == m.block.radio
    IN  IF m.tenant_id \notin DOMAIN s.tenants
        THEN unload([s EXCEPT !.path = "stale"], id)
        ELSE IF w \notin s.tenants[m.tenant_id]
        THEN unload([s EXCEPT !.path = "stale"], id)
        ELSE handle_callback(
                [s EXCEPT !.path = "decode",
                          !.summaries[id].frames =
                              DecodeFrames(m.block.band, response.frames, <<>>)],
                id)

\* SummaryWorker.handle_bye that unloads the modules it removes
handle_bye_Unload(s, w) ==
    LET to_be_removed == {id \in s.modules : s.summaries[id].block \in s.supports[w]}
        RECURSIVE UnloadAll(_, _)
        UnloadAll(t, ids) ==
            IF ids = {} THEN t
            ELSE LET id == CHOOSE id \in ids : TRUE
                 IN  UnloadAll(unload(t, id), ids \ {id})
    IN  UnloadAll(s, to_be_removed)

\* SummaryWorker.handle_bye
handle_bye(s, w) ==
    LET to_be_removed == {id \in s.modules : s.summaries[id].block \in s.supports[w]}
        RECURSIVE RemoveAll(_, _)
        RemoveAll(t, ids) ==
            IF ids = {} THEN t
            ELSE LET id == CHOOSE id \in ids : TRUE
                 IN  RemoveAll(remove_module(t, id), ids \ {id})
    IN  RemoveAll(s, to_be_removed)

\* ------------------------------------------- actions of the summary module

SArg(id, w, frames) == [module_id |-> id, wtp |-> w, frames |-> frames]

CommitS(s, op, arg) ==
    /\ modules'   = s.modules
    /\ summaries' = s.summaries
    /\ log'       = s.log
    /\ callbacks' = s.callbacks
    /\ call'      = Call(op, arg, s.result, s.path,
                           /\ s.modules = modules
                           /\ s.summaries = summaries
                           /\ s.callbacks = callbacks
                           /\ s.log = log)
    /\ UNCHANGED <<lvapVars, supports, closed, absent, tenants>>

\* a step of the environment
Env(op, arg) ==
    /\ log' = <<>>
    /\ callbacks' = <<>>
    /\ call' = FirstCall(op, arg, "ok", "-")
    /\ UNCHANGED <<lvapVars, supports, modules, summaries>>

\* the timer of a registered module fires
RunOnce ==
    \E id \in modules :
        /\ CommitS(run_once(CurS, id), "run_once", SArg(id, "-", <<>>))
        /\ UNCHANGED inbound

\* module.unload(), on a registered module or on one unloaded before
Unload ==
    \E id \in ModIds :
        /\ CommitS(unload(CurS, id), "unload", SArg(id, "-", <<>>))
        /\ UNCHANGED inbound

\* the entries of the responses: a beacon at rate code 4 and a data frame of
\* subtype 0x99 at rate code 5
Entry(rate, type, subtype) == <<"c1", 1000, 7, -60, rate, type, subtype, 64>>
E1 == Entry(4, 0, 128)
E2 == Entry(5, 8, 153)

Responses == {<<>>, <<E1, E2>>, <<E2>>}

\* a WTP answers a request of module id
AgentRespond ==
    \E id \in ModIds, r \in Responses :
        /\ inbound = <<>>
        /\ inbound' = <<[module_id |-> id, frames |-> r]>>
        /\ Env("respond", SArg(id, "-", r))
        /\ UNCHANGED <<closed, absent, tenants>>

\* the worker takes a response off the wire: it hands it to the module of
\* that id, and drops it when no such module is registered
HandleResponse ==
    /\ inbound # <<>>
    /\ inbound' = Tail(inbound)
    /\ LET response == Head(inbound)
           id       == response.module_id
       IN  IF id \in modules
           THEN CommitS(handle_response(CurS, id, response), "handle_response",
                        SArg(id, "-", response.frames))
           ELSE CommitS([CurS EXCEPT !.path = "dropped"], "handle_response",
                        SArg(id, "-", response.frames))

\* WTP w says bye
HandleBye ==
    \E w \in WTPS :
        /\ CommitS(handle_bye(CurS, w), "handle_bye", SArg(0, w, <<>>))
        /\ UNCHANGED inbound

\* a tenant is removed; a WTP leaves a tenant
TenantRemove ==
    \E t \in DOMAIN tenants :
        /\ tenants' = [u \in (DOMAIN tenants) \ {t} |-> tenants[u]]
        /\ Env("tenant_remove", SArg(0, "-", <<>>))
        /\ UNCHANGED <<closed, absent, inbound>>

TenantWtpRemove ==
    \E t \in DOMAIN tenants :
    \E w \in tenants[t] :
        /\ tenants' = [tenants EXCEPT ![t] = @ \ {w}]
        /\ Env("tenant_wtp_remove", SArg(0, w, <<>>))
        /\ UNCHANGED <<closed, absent, inbound>>

\* the connection object of a WTP goes away
ConnectionLost ==
    \E w \in WTPS \ absent :
        /\ Cardinality(absent) < MaxAbsent
        /\ absent' = absent \cup {w}
        /\ closed' = closed \ {w}
        /\ Env("lost", SArg(0, w, <<>>))
        /\ UNCHANGED <<tenants, inbound>>

\* the worker with its modules created and registered, each bound to a block
Created(b) == [NewSummary EXCEPT !.block = b]

StartsWith(M, S, I) ==
    /\ downlink = EmptyTable
    /\ uplink = EmptyTable
    /\ ports = NoPorts
    /\ attrs = InitAttrs
    /\ supports = SummarySupports
    /\ closed = {}
    /\ absent = {}
    /\ tenants = [t \in TenantIds |-> WTPS]
    /\ modules = M
    /\ summaries \in S
    /\ inbound \in I
    /\ callbacks = <<>>
    /\ log = <<>>
    /\ call = FirstCall("init", SArg(0, "-", <<>>), "ok", "-")

\* the last module is bound to B2, the others to any block
InitSummary ==
    StartsWith(ModIds,
               {S \in [ModIds -> {Created(b) : b \in SummaryBlocks}] :
                    S[MaxModules].block = B2},
               {<<>>})

NextSummary ==
    \/ RunOnce
    \/ Unload
    \/ AgentRespond
    \/ HandleResponse
    \/ HandleBye
    \/ TenantRemove
    \/ TenantWtpRemove
    \/ ConnectionClose
    \/ ConnectionOpen
    \/ ConnectionLost

SpecSummary == InitSummary /\ [][NextSummary]_vars

\* the decoding of a response: one module, bound to any block, and a
\* one-entry response for it in flight, the entry's rate any 8-bit code, its
\* type and subtype the codes the decoder names and one it does not
MaxRateCode  == 255
RateCodes    == 0..MaxRateCode
TypeCodes    == {0, 4, 8, 12}
SubtypeCodes == {0, 16, 32, 48, 128, 153}

AllEntries ==
    {Entry(r, t, u) : r \in RateCodes, t \in TypeCodes, u \in SubtypeCodes}

InitDecode ==
    StartsWith({1},
               {S \in [ModIds -> {Created(b) : b \in SummaryBlocks} \cup {NewSummary}] :
                    /\ S[1].block # NoBlock
                    /\ \A id \in ModIds \ {1} : S[id] = NewSummary},
               {<<[module_id |-> 1, frames |-> <<e>>]>> : e \in AllEntries})

NextDecode == HandleResponse

SpecDecode == InitDecode /\ [][NextDecode]_vars

\* the values assigned to module.block: a ResourceBlock, a dict holding some
\* of the keys wtp, hwaddr, channel, band, or a value of another type
Keys == {"wtp", "hwaddr", "channel", "band"}

Value(kind, block, keys, w, hwaddr, channel, band) ==
    [kind |-> kind, block |-> block, keys |-> keys, wtp |-> w, hwaddr |-> hwaddr,
     channel |-> channel, band |-> band]

BlockValue(b) == Value("ResourceBlock", b, {}, "-", "-", 0, "-")
DictValue(keys, w, hwaddr, channel, band) ==
    Value("dict", NoBlock, keys, w, hwaddr, channel, band)
OtherValue == Value("other", NoBlock, {}, "-", "-", 0, "-")

\* the block setter that takes any of several matching blocks
block_setter_NoAmbiguityCheck(s, id, value) ==
    IF value.kind # "dict" \/ value.keys # Keys \/ value.wtp \notin WTPS
    THEN [s EXCEPT !.result = "ValueError"]
    ELSE LET block == ResourceBlock(value.wtp, value.hwaddr, value.channel, value.band)
             match == PoolAnd(s.supports[value.wtp], {block})
         IN  IF match = {} THEN [s EXCEPT !.result = "ValueError"]
             ELSE [s EXCEPT !.summaries[id].block = CHOOSE b \in match : TRUE]

\* Summary.block (setter); RUNTIME.wtps holds the WTPs of WTPS
block_setter(s, id, value) ==
    IF value.kind = "ResourceBlock"
    THEN [s EXCEPT !.summaries[id].block = value.block]
    ELSE IF value.kind = "dict"
    THEN IF "wtp" \notin value.keys THEN [s EXCEPT !.result = "KeyError"]
         ELSE IF value.wtp \notin WTPS THEN [s EXCEPT !.result = "KeyError"]
         ELSE IF "hwaddr" \notin value.keys THEN [s EXCEPT !.result = "ValueError"]
         ELSE IF "channel" \notin value.keys THEN [s EXCEPT !.result = "ValueError"]
         ELSE IF "band" \notin value.keys THEN [s EXCEPT !.result = "ValueError"]
         ELSE LET block == ResourceBlock(value.wtp, value.hwaddr, value.channel,
                                         value.band)
                  match == PoolAnd(s.supports[value.wtp], {block})
              IN  IF match = {} THEN [s EXCEPT !.result = "ValueError"]
                  ELSE IF Cardinality(match) > 1
                  THEN [s EXCEPT !.result = "ValueError"]
                  ELSE [s EXCEPT !.summaries[id].block = CHOOSE b \in match : TRUE]
    ELSE s

\* the descriptors: complete or with one key missing, naming a WTP or an
\* address that is no WTP, a radio address, a channel and a band
Descriptors ==
    {DictValue(keys, w, h, ch, bd) :
        keys \in {Keys} \cup {Keys \ {k} : k \in Keys},
        w \in WTPS \cup {"w9"}, h \in {"hw2", "hw9"}, ch \in {1, 6},
        bd \in {"L20", "HT20"}}

BlockValues ==
    {BlockValue(b) : b \in SummaryBlocks} \cup Descriptors \cup {OtherValue}

BArg(id, value) == [module_id |-> id, value |-> value]

\* module.block = value
SetBlock ==
    \E id \in ModIds, value \in BlockValues :
        /\ CommitS(block_setter(CurS, id, value), "block", BArg(id, value))
        /\ UNCHANGED inbound

\* the modules as their constructor leaves them, not yet registered
InitBlock == StartsWith({}, {[id \in ModIds |-> NewSummary]}, {<<>>})

NextBlock == SetBlock

SpecBlock == InitBlock /\ [][NextBlock]_vars

\* the parameters of a module: values around the setters' thresholds and
\* around the ends of the two fields
PeriodValues == {999, 1000, 2000, 65535, 65536}
LimitValues  == {-32769, -2, -1, 0, 32767, 32768}

NArg(id, n) == [module_id |-> id, num |-> n]

\* module.period = value
SetPeriod ==
    \E id \in modules, value \in PeriodValues :
        /\ CommitS(period_setter(CurS, id, value), "period", NArg(id, value))
        /\ UNCHANGED inbound

\* module.limit = value
SetLimit ==
    \E id \in modules, value \in LimitValues :
        /\ CommitS(limit_setter(CurS, id, value), "limit", NArg(id, value))
        /\ UNCHANGED inbound

\* one registered module on B1
InitParams ==
    StartsWith({1},
               {S \in [ModIds -> {Created(B1), NewSummary}] :
                    /\ S[1] = Created(B1)
                    /\ \A id \in ModIds \ {1} : S[id] = NewSummary},
               {<<>>})

NextParams ==
    \/ SetPeriod
    \/ SetLimit
    \/ RunOnce
    \/ Unload
    \/ ConnectionClose
    \/ ConnectionOpen

SpecParams == InitParams /\ [][NextParams]_vars

\* ----------------------------------------------------------------- claims

\* the number of events of kind ev in a log, and of those about block b of
\* table tbl
NAll(seq, ev) == Cardinality({i \in DOMAIN seq : seq[i].ev = ev})
NEv(seq, ev, tbl, b) ==
    Cardinality({i \in DOMAIN seq :
                    seq[i].ev = ev /\ seq[i].tbl = tbl /\ seq[i].block = b})

\* the step is a call of the downlink setter (or its alias scheduled_on)
SetterCall == call'.op \in {"downlink", "scheduled_on"}

Bound(s) == (DOMAIN s.downlink) \cup (DOMAIN s.uplink)

\* ... with a non-empty pool (or a block) that is not the current binding
RebindCall ==
    /\ SetterCall
    /\ Truthy(call'.arg)
    /\ call'.arg.kind \in {"ResourcePool", "ResourceBlock"}
    /\ call'.arg.pool # Bound(Cur)

\* ... with a non-empty pool (or a block) that is the current binding
RefreshCall ==
    /\ SetterCall
    /\ Truthy(call'.arg)
    /\ call'.arg.kind \in {"ResourcePool", "ResourceBlock"}
    /\ call'.arg.pool = Bound(Cur)

C1_Step ==
    /\ Cardinality(DOMAIN downlink') <= 1
    /\ (/\ call'.op = "downlink_setitem"
        /\ DOMAIN downlink # {}
        /\ call'.arg.pool \cap DOMAIN downlink = {})
       => (call'.result = "ValueError" /\ downlink' = downlink)

\* C1: whatever sequence of setter calls, attribute updates and direct table
\* operations is applied, the downlink table holds 0 or 1 entries, and
\* inserting a new block into a downlink table that holds an entry is
\* rejected (ValueError) and leaves the table unchanged.
C1_DownlinkAtMostOne ==
    Cardinality(DOMAIN downlink) <= 1 /\ [][C1_Step]_vars

C1_Witness ==
    /\ call.op = "downlink_setitem"
    /\ call.result = "ValueError"
    /\ Cardinality(DOMAIN downlink) = 1

\* C2: an LVAP that starts with a downlink entry has exactly one downlink
\* entry after every call of the downlink / scheduled_on / wtp setters and
\* every attribute update.
C2_BoundStaysBound == Cardinality(DOMAIN downlink) = 1

C2_Witness ==
    /\ call.op = "wtp"
    /\ call.path = "rebind"
    /\ call.result = "ok"
    /\ Cardinality(DOMAIN downlink) = 1

C3_Step ==
    RebindCall =>
        /\ call'.result = "ok"
        /\ Cardinality(DOMAIN downlink') = 1
        /\ DOMAIN downlink' \subseteq call'.arg.pool
        /\ DOMAIN uplink' = call'.arg.pool \ DOMAIN downlink'
        /\ \A b \in Bound(Cur) \ call'.arg.pool :
              b \notin (DOMAIN downlink') \cup (DOMAIN uplink')

\* C3: after the downlink setter is called with a non-empty pool P that is
\* not the current combined binding, the downlink table holds exactly one
\* block d of P, the uplink keys are exactly P minus d, and no block bound
\* before the call and outside P remains bound.
C3_RebindPartitionsPool == [][C3_Step]_vars

C3_Witness ==
    /\ call.op = "downlink"
    /\ call.path = "rebind"
    /\ Cardinality(call.arg.pool) = 3
    /\ Cardinality(DOMAIN uplink) = 2

C4_Step ==
    (RebindCall /\ closed = {} /\ call'.arg.pool \cap Bound(Cur) = {}) =>
        /\ \A b \in DOMAIN downlink : NEv(log', "del_lvap", "downlink", b) = 1
        /\ \A b \in DOMAIN uplink : NEv(log', "del_lvap", "uplink", b) = 1
        /\ NAll(log', "del_lvap")
              = Cardinality(DOMAIN downlink) + Cardinality(DOMAIN uplink)
        /\ \A b \in call'.arg.pool :
              Cardinality({i \in DOMAIN log' :
                              log'[i].ev = "add_lvap" /\ log'[i].block = b}) = 1
        /\ NAll(log', "add_lvap") = Cardinality(call'.arg.pool)
        /\ \A i \in DOMAIN log' :
              /\ log'[i].ev \in {"add_lvap", "del_lvap"}
                    => log'[i].wtp = log'[i].block.radio
              /\ log'[i].ev = "add_lvap"
                    => log'[i].mask = IF log'[i].block \in DOMAIN downlink'
                                      THEN "replace" ELSE "merge"

\* C4: with every connection open, rebinding to a pool disjoint from the
\* current binding issues exactly one del lvap per previously bound entry
\* (the downlink and every uplink) and exactly one add lvap per block of the
\* pool, the downlink's with the replace flag, each uplink's with the merge
\* flag.
C4_DisjointRebindMessages == [][C4_Step]_vars

C4_Witness ==
    /\ call.op \in {"downlink", "scheduled_on"}
    /\ call.path = "rebind"
    /\ closed = {}
    /\ \E i, j \in DOMAIN log :
          /\ IsDel(log[i]) /\ log[i].tbl = "downlink"
          /\ IsDel(log[j]) /\ log[j].tbl = "uplink"
          /\ log[i].block # log[j].block
    /\ \A i \in DOMAIN log : IsDel(log[i]) => log[i].block \notin call.arg.pool
    /\ NAll(log, "add_lvap") = 1

C5_Post ==
    /\ call'.result = "ok"
    /\ downlink' = downlink
    /\ uplink' = uplink
    /\ NAll(log', "add_lvap") = 0
    /\ NAll(log', "del_lvap") = 0
    /\ NAll(log', "set_ports") >= 1
    /\ NAll(log', "add_station_flows") >= 1

C5_OriginalStep == RefreshCall => C5_Post

\* C5 as stated: a call with a pool set-equal to the current combined binding
\* leaves both tables unchanged, issues no add lvap and no del lvap, and
\* re-issues the virtual-port setup and the flow-table programming.
C5_Original == [][C5_OriginalStep]_vars

C5_Step == (RefreshCall /\ DOMAIN downlink # {}) => C5_Post

\* C5 (amended): the same, for an LVAP that has a downlink entry.
C5_RefreshOfBoundLvap == [][C5_Step]_vars

C5_Witness ==
    /\ call.op \in {"downlink", "scheduled_on"}
    /\ call.path = "refresh"
    /\ \E b \in DOMAIN downlink : downlink[b] = "custom"
    /\ DOMAIN uplink # {}

C6_Step ==
    (SetterCall /\ call'.arg \in {NoneArg, PoolArg({})}) =>
        /\ call'.result = "ok"
        /\ downlink' = downlink
        /\ uplink' = uplink
        /\ ports' = ports
        /\ log' = <<>>

\* C6: the downlink (or scheduled_on) setter called with an empty pool or
\* with None changes neither table nor the virtual ports, writes no message
\* and makes no flow-table call.
C6_NullIsNoOp == [][C6_Step]_vars

C6_Witness ==
    /\ call.op \in {"downlink", "scheduled_on"}
    /\ call.arg = PoolArg({})
    /\ DOMAIN downlink # {}
    /\ DOMAIN uplink # {}

C7_Rejected ==
    /\ call'.result = "TypeError"
    /\ downlink' = downlink
    /\ uplink' = uplink
    /\ ports' = ports
    /\ log' = <<>>

C7_OriginalStep == (SetterCall /\ call'.arg.kind = "str") => C7_Rejected

\* C7 as stated: the downlink setter called with a value that is neither a
\* ResourceBlock nor a ResourcePool raises a type error and changes nothing.
C7_Original == [][C7_OriginalStep]_vars

C7_Step ==
    (SetterCall /\ call'.arg.kind = "str" /\ Truthy(call'.arg)) => C7_Rejected

\* C7 (amended): the same, for a value that is true in a boolean context.
C7_TruthyOtherTypeRejected == [][C7_Step]_vars

C7_Witness ==
    /\ call.op = "downlink"
    /\ call.arg = OtherArg("x")
    /\ call.result = "TypeError"
    /\ DOMAIN downlink # {}

\* the step is lvap.wtp = target on a bound LVAP
WtpCall == call'.op = "wtp" /\ DOMAIN downlink # {}
Target == call'.arg.val

C8_Step ==
    (WtpCall /\ PoolAnd(supports[Target], DOMAIN downlink) = {}) =>
        /\ call'.result = "ok"
        /\ downlink' = downlink
        /\ uplink' = uplink
        /\ ports' = ports
        /\ log' = <<>>

\* C8: lvap.wtp = target on a bound LVAP, when the target supports no block
\* with the channel and band of the LVAP's downlink block, raises nothing,
\* changes neither table nor the virtual ports and issues no message and no
\* flow-table call.
C8_NoMatchIsNoOp == [][C8_Step]_vars

C8_Witness ==
    /\ call.op = "wtp"
    /\ call.result = "ok"
    /\ DOMAIN downlink # {}
    /\ PoolAnd(supports[call.arg.val], DOMAIN downlink) = {}

C9_Post ==
    /\ call'.result = "ok"
    /\ Cardinality(DOMAIN downlink') = 1
    /\ \A b \in DOMAIN downlink' : b.radio = Target /\ b \in supports[Target]
    /\ \E i \in DOMAIN log' : log'[i].ev = "del_lvap" /\ log'[i].wtp = wtp(Cur)
    /\ \E i \in DOMAIN log' : log'[i].ev = "add_lvap" /\ log'[i].wtp = Target

HandoverCall ==
    /\ WtpCall
    /\ Target # wtp(Cur)
    /\ PoolAnd(supports[Target], DOMAIN downlink) # {}

C9_OriginalStep == HandoverCall => C9_Post

C9_Step ==
    (HandoverCall /\ wtp(Cur) \notin closed /\ Target \notin closed) => C9_Post

C10_Step ==
    (attrs' # attrs /\ closed = {}) =>
        /\ \A b \in DOMAIN downlink :
              /\ NEv(log', "add_lvap", "downlink", b) = 1
              /\ \A i \in DOMAIN log' :
                    (log'[i].tbl = "downlink" /\ log'[i].block = b)
                        => (log'[i].mask = "replace" /\ log'[i].lvap = attrs')
        /\ \A b \in DOMAIN uplink :
              /\ NEv(log', "add_lvap", "uplink", b) = 1
              /\ \A i \in DOMAIN log' :
                    (log'[i].tbl = "uplink" /\ log'[i].block = b)
                        => (log'[i].mask = "merge" /\ log'[i].lvap = attrs')

\* C10: whenever a client attribute (encap, assoc_id, ssid, ssids) changes
\* to a different value, every bound downlink block and every bound uplink
\* block is sent (its connection being open) exactly one add lvap carrying
\* the new attributes, the downlink's with the replace flag, the uplink's
\* with the merge flag.
C10_AttributeChangeResendsAll == [][C10_Step]_vars

\* the step writes an attribute with the value it already has
SameValueWrite ==
    \/ /\ call'.op = "encap"
       /\ attrs.encap = (IF call'.arg.val = "None" THEN ZeroAddr ELSE call'.arg.val)
    \/ /\ call'.op = "assoc_id"
       /\ attrs.assoc_id = call'.arg.num
    \/ /\ call'.op = "ssid"
       /\ attrs.ssid = call'.arg.val

C11_Step ==
    SameValueWrite =>
        /\ log' = <<>>
        /\ call'.result = "ok"
        /\ UNCHANGED <<downlink, uplink, ports, attrs, supports, closed>>

\* C11: writing encap, assoc_id or ssid with the value it already has sends
\* no message and changes no state; for encap, None counts as the all-zero
\* address, so writing None over the all-zero address is such a no-op.
C11_SameValueWriteIsNoOp == [][C11_Step]_vars

\* encap = None was written on a bound LVAP with open connections and
\* nothing was sent
C11_Witness ==
    /\ call.op = "encap"
    /\ call.arg.val = "None"
    /\ attrs.encap = ZeroAddr
    /\ DOMAIN downlink # {}
    /\ DOMAIN uplink # {}
    /\ closed = {}
    /\ log = <<>>

\* ------------------------------------------------ claims on the summary module

\* module id before the step: its WTP, whether the tenant or the WTP's
\* membership is stale, and whether the WTP's connection is there and open
Radio(id)   == summaries[id].block.radio
Stale(id)   ==
    \/ summaries[id].tenant_id \notin DOMAIN tenants
    \/ Radio(id) \notin tenants[summaries[id].tenant_id]
IsOpen(w)   == w \notin closed \cup absent

\* the messages of kind ev in a log, and those of them the stream took
Attempts(seq, ev)  == {i \in DOMAIN seq : seq[i].ev = ev}
Delivered(seq, ev) == {i \in DOMAIN seq : seq[i].ev = ev /\ seq[i].delivered}

\* the step is a call of op on a module; Id is that module
CallOf(op) == call'.op = op
Id         == call'.arg.module_id

OneRequest ==
    /\ call'.result = "ok"
    /\ Cardinality(Delivered(log', "add_summary")) = 1
    /\ \A i \in Delivered(log', "add_summary") :
          log'[i].module_id = Id /\ log'[i].wtp = Radio(Id)
    /\ Len(log') = 1

C12_StaleTick ==
    (CallOf("run_once") /\ Stale(Id)) =>
        /\ Id \notin modules'
        /\ Attempts(log', "add_summary") = {}

C12_OriginalStep ==
    /\ C12_StaleTick
    /\ (CallOf("run_once") /\ ~Stale(Id)) => OneRequest

C12_Step ==
    /\ C12_StaleTick
    /\ (CallOf("run_once") /\ ~Stale(Id) /\ IsOpen(Radio(Id))) => OneRequest
    /\ (CallOf("run_once") /\ ~Stale(Id) /\ ~IsOpen(Radio(Id))) =>
          /\ call'.result # "ok"
          /\ Delivered(log', "add_summary") = {}
          /\ modules' = modules

ResponseCall == CallOf("handle_response") /\ Id \in modules

C13_Step ==
    /\ (ResponseCall /\ Stale(Id)) =>
          /\ Id \notin modules'
          /\ summaries'[Id].frames = summaries[Id].frames
          /\ callbacks' = <<>>
    /\ (ResponseCall /\ ~Stale(Id)) =>
          /\ Len(summaries'[Id].frames) = Len(call'.arg.frames)
          /\ \A i \in DOMAIN call'.arg.frames :
                summaries'[Id].frames[i] =
                    DecodeEntry(summaries[Id].block.band, call'.arg.frames[i])
          /\ callbacks' = <<[module_id |-> Id, frames |-> summaries'[Id].frames]>>
          /\ Id \in modules'

\* C13: a response for a stale module unloads it, leaves its frames and
\* calls no callback; a response for a valid module replaces its frames by
\* the decoded entries of this response, one per entry and in their order,
\* and then calls the callback once with the module.
C13_ResponseReplacesFrames == [][C13_Step]_vars

\* a one-entry response has been decoded and handed to the callback
C13_Witness ==
    /\ call.op = "handle_response"
    /\ call.path = "decode"
    /\ call.arg.frames = <<E2>>
    /\ Len(summaries[call.arg.module_id].frames) = 1
    /\ Len(callbacks) = 1
    /\ callbacks[1].frames = summaries[call.arg.module_id].frames

C14_Step ==
    (/\ CallOf("unload")
     /\ call.op = "unload"
     /\ call.arg.module_id = Id
     /\ Id \notin modules
     /\ IsOpen(Radio(Id)))
        => (log' = <<>> /\ call'.result = "ok" /\ modules' = modules)

\* C14: unload called again on the module just unloaded, with the WTP's
\* connection open, writes nothing, raises nothing and leaves the registry.
C14_SecondUnloadIsNoOp == [][C14_Step]_vars

C15_Step ==
    CallOf("unload") =>
        /\ call'.result = "ok"
        /\ modules' = modules \ {Id}
        /\ IsOpen(Radio(Id)) =>
              /\ Len(log') = 1
              /\ log'[1] = DelSummary(CurS, Id, Radio(Id))
        /\ ~IsOpen(Radio(Id)) => log' = <<>>

\* C15: unload removes the module from the registry whatever the state of
\* the WTP's connection, and writes a teardown carrying the module id exactly
\* when the connection exists and is open.
C15_UnloadRemovesAndGuardsSend == [][C15_Step]_vars

\* a registered module was unloaded while its WTP's connection was closed
C15_Witness ==
    /\ call.op = "unload"
    /\ call.result = "ok"
    /\ call.arg.module_id \notin modules
    /\ modules # {}
    /\ summaries[call.arg.module_id].block.radio \in closed
    /\ log = <<>>

C16_Step ==
    (CallOf("run_once") /\ ~Stale(Id) /\ ~IsOpen(Radio(Id)))
        => (log' = <<>> /\ call'.result = "ok")

\* C16: a tick of a valid module whose WTP's connection is closed or absent
\* attempts no write and raises no error.
C16_ClosedTickIsSkipped == [][C16_Step]_vars

ByeCall == CallOf("handle_bye")
X       == call'.arg.wtp

C17_Step ==
    ByeCall =>
        /\ modules' = {id \in modules : summaries[id].block \notin supports[X]}
        /\ \A id \in modules : Radio(id) # X => id \in modules'
        /\ summaries' = summaries
        /\ log' = <<>>
        /\ call'.result = "ok"

\* C17: a bye of WTP X removes from the registry every module whose block is
\* in X's supports, leaves the modules bound to blocks of other WTPs
\* registered and unchanged, and writes no teardown.
C17_ByeRemovesModulesOfWtp == [][C17_Step]_vars

\* a bye of a connected WTP has removed one module and left the other, which
\* is bound to a block of another WTP
C17_Witness ==
    /\ call.op = "handle_bye"
    /\ IsOpen(call.arg.wtp)
    /\ Cardinality(modules) = 1
    /\ \A id \in modules : summaries[id].block.radio # call.arg.wtp
    /\ \E id \in ModIds \ modules : summaries[id].block \in supports[call.arg.wtp]
    /\ log = <<>>

\* ------------------------------------------------- claims on the decoding

\* the step decodes a response; entry i of the response and record i of the
\* module's frames after it
DecodeCall == ResponseCall /\ call'.path = "decode"
Recv(i)    == call'.arg.frames[i]
Frame(i)   == summaries'[Id].frames[i]

C18_Step ==
    DecodeCall =>
        \A i \in DOMAIN call'.arg.frames :
            /\ (Recv(i)[6] = 8 /\ Recv(i)[7] = 0) =>
                  (Frame(i).type = "DATA" /\ Frame(i).subtype = Raw(0))
            /\ Recv(i)[7] \notin {0, 16, 32, 48, 128} =>
                  Frame(i).subtype = Raw(Recv(i)[7])

\* C18: an entry of type 0x08 and subtype 0x00 decodes to type "DATA" and
\* subtype 0, the raw code; and every subtype code other than 0x00, 0x10,
\* 0x20, 0x30, 0x80 decodes to its raw value.
C18_DataSubtypeZeroIsRaw == [][C18_Step]_vars

C19_Step ==
    DecodeCall =>
        \A i \in DOMAIN call'.arg.frames :
            IF summaries[Id].block.band = BT_L20
            THEN Frame(i).rate = Float(Recv(i)[5])
            ELSE Frame(i).rate = Whole(Recv(i)[5])

\* C19: for every 8-bit rate code r of an entry, the decoded rate is r/2
\* (twice the decoded rate is r) when the module's block has the 20 MHz
\* legacy band, and r itself for every other band.
C19_RateHalvedOnLegacyBand == [][C19_Step]_vars

\* rate code 4 has been decoded to 2.0 for a module on a legacy block
C19_Witness ==
    /\ call.op = "handle_response"
    /\ call.path = "decode"
    /\ summaries[call.arg.module_id].block.band = BT_L20
    /\ call.arg.frames[1][5] = 4
    /\ summaries[call.arg.module_id].frames[1].rate.float
    /\ 2 * 2 = summaries[call.arg.module_id].frames[1].rate.halves

\* --------------------------------------------- claims on the block setter

\* the step assigns a dict to module.block; the blocks of the named WTP with
\* the channel and band of the descriptor
DictCall == CallOf("block") /\ call'.arg.value.kind = "dict"
Desc     == call'.arg.value
Matches  ==
    IF Desc.wtp \in WTPS
    THEN {b \in supports[Desc.wtp] : b.channel = Desc.channel /\ b.band = Desc.band}
    ELSE {}

Rejected ==
    /\ call'.result # "ok"
    /\ summaries' = summaries

C20_Step ==
    /\ (DictCall /\ Desc.keys # Keys) => Rejected
    /\ (DictCall /\ Desc.keys = Keys /\ Cardinality(Matches) # 1) => Rejected
    /\ (DictCall /\ Desc.keys = Keys /\ Cardinality(Matches) = 1) =>
          /\ call'.result = "ok"
          /\ summaries'[Id].block \in Matches
          /\ \A id \in ModIds \ {Id} : summaries'[id] = summaries[id]

\* C20: a descriptor with a key missing, or matching no block or several
\* blocks of the WTP it names, is rejected with an error and the module's
\* block stays; one matching exactly one block makes that block of the WTP's
\* supports the module's block.
C20_DescriptorMatchesOneBlock == [][C20_Step]_vars

\* a descriptor has bound a module to the one block of w2 in the HT20 band
C20_Witness ==
    /\ call.op = "block"
    /\ call.result = "ok"
    /\ call.arg.value.kind = "dict"
    /\ call.arg.value.wtp = "w2"
    /\ call.arg.value.band = "HT20"
    /\ summaries[call.arg.module_id].block = B3

\* ------------------------------------------- claims on the rebind's order

\* the place of an event in the sequence of a rebind: flow-table removal,
\* deletion of the downlink entry, deletions of the uplink entries, binding
\* of the new downlink (add lvap and its port update), virtual-port setup,
\* flow-table install, bindings of the uplinks
Phase(e) ==
    CASE e.ev = "remove_station_flows"                          -> 1
      [] e.ev = "del_lvap" /\ e.tbl = "downlink"                -> 2
      [] e.ev = "del_lvap" /\ e.tbl = "uplink"                  -> 3
      [] e.ev \in {"add_lvap", "set_port"} /\ e.tbl = "downlink" -> 4
      [] e.ev = "set_ports"                                     -> 5
      [] e.ev = "add_station_flows"                             -> 6
      [] e.ev \in {"add_lvap", "set_port"} /\ e.tbl = "uplink"   -> 7
      [] OTHER                                                  -> 0

C21_Step ==
    (call'.path = "rebind" /\ call'.result = "ok") =>
        LET phases == [i \in DOMAIN log' |-> Phase(log'[i])]
        IN  /\ \A i \in DOMAIN phases :
                  /\ phases[i] >= 1
                  /\ i > 1 => phases[i - 1] <= phases[i]
            /\ Cardinality({i \in DOMAIN phases : phases[i] = 1})
                  = (IF DOMAIN downlink = {} THEN 0 ELSE 1)
            /\ Cardinality({i \in DOMAIN phases : phases[i] = 5}) = 1
            /\ Cardinality({i \in DOMAIN phases : phases[i] = 6}) = 1

\* C21: the effects of a rebind come in this order: flow-table removal for
\* the old downlink, deletion of the old downlink entry, deletion of every
\* old uplink entry, binding of the new downlink entry (add lvap),
\* virtual-port setup, flow-table install, binding of every remaining block
\* as uplink (add lvap): the phases of the events never decrease along the
\* log, so every del lvap (phases 2, 3) comes before every add lvap (phases
\* 4, 7) and the downlink's add lvap before every uplink's.
C21_RebindOrder == [][C21_Step]_vars

\* a rebind that went through all seven phases, every connection open
C21_Witness ==
    /\ call.op \in {"downlink", "scheduled_on"}
    /\ call.path = "rebind"
    /\ call.result = "ok"
    /\ closed = {}
    /\ \A n \in 1..7 : \E i \in DOMAIN log : Phase(log[i]) = n

\* ----------------------------------------- claims on the virtual ports

\* the WTP of the downlink block after the step
WtpAfter ==
    IF DOMAIN downlink' = {} THEN "None"
    ELSE (CHOOSE b \in DOMAIN downlink' : TRUE).radio

C22_Step ==
    (/\ call'.op \in {"downlink", "scheduled_on", "wtp"}
     /\ call'.path \in {"rebind", "refresh"}
     /\ call'.result = "ok") =>
        /\ DOMAIN ports' \subseteq {0}
        /\ \A i \in DOMAIN ports' :
              /\ ports'[i].dpid = WtpAfter
              /\ ports'[i].lvap = LvapAddr
              /\ \E p \in WtpPorts(WtpAfter) :
                    p.iface = "empower0" /\ p.port_id = ports'[i].ovs_port_id
        /\ WtpAfter # "None" => 0 \in DOMAIN ports'

\* C22: after every completed rebind or refresh through the downlink setter
\* the virtual ports hold at most one entry, at index 0, which belongs to
\* the WTP of the current downlink block and refers back to this LVAP; no
\* entry of a WTP bound before survives.
C22_PortsRebuilt == [][C22_Step]_vars

\* a handover: the virtual port is that of w2, the flow-table removal of
\* the same call was for w1
C22_Witness ==
    /\ call.path = "rebind"
    /\ call.result = "ok"
    /\ \E i \in DOMAIN log : log[i].ev = "remove_station_flows" /\ log[i].wtp = "w1"
    /\ DOMAIN ports = {0}
    /\ ports[0].dpid = "w2"
    /\ \A b \in DOMAIN downlink : b.radio = "w2"

\* C23: lvap.port = p on an LVAP with a downlink entry is accepted, sets the
\* Port of that entry to p, keeps the block and the single entry, and sends
\* only a port update to the block's WTP (no add or delete client, no flow
\* table or virtual port change); on an unbound LVAP it changes nothing.
C23_Step ==
    call'.op = "port" =>
        IF DOMAIN downlink = {}
        THEN /\ UNCHANGED lvapVars
             /\ log' = <<>>
             /\ call'.result = "ok"
        ELSE LET b == CHOOSE b \in DOMAIN downlink : TRUE
             IN  /\ call'.result = "ok"
                 /\ DOMAIN downlink' = {b}
                 /\ downlink'[b] = call'.arg.val
                 /\ UNCHANGED <<uplink, ports, attrs>>
                 /\ \A i \in DOMAIN log' :
                        /\ log'[i].ev = "set_port"
                        /\ log'[i].block = b
                 /\ b.radio \notin closed => Len(log') = 1

C23_PortAssignmentUpdatesEntry == [][C23_Step]_vars

\* C24: the downlink setter leaves the pool object it is given as it was: a
\* call that passes the supported pool of a WTP, whether it ends as a no-op,
\* a refresh or a rebind, leaves that WTP's supported pool with the same
\* blocks.
C24_Step ==
    (call'.op = "downlink" /\ call'.arg.owner # "-") =>
        supports'[call'.arg.owner] = supports[call'.arg.owner]

C24_CallerPoolUntouched == [][C24_Step]_vars

\* C25: a period the period setter accepts fits the unsigned 16-bit period
\* field and a limit the limit setter accepts fits the signed 16-bit limit
\* field, a value outside its field is rejected and leaves the parameter as
\* it was, so run_once always encodes its request; and the length written
\* in a request and in a teardown is the byte size of the encoded message.
C25_Step ==
    /\ CallOf("period") =>
          /\ call'.result = "ok" =>
                Fits(FieldOf(ADD_SUMMARY, "period"), summaries'[Id].period)
          /\ ~Fits(FieldOf(ADD_SUMMARY, "period"), call'.arg.num) =>
                call'.result = "ValueError" /\ summaries' = summaries
    /\ CallOf("limit") =>
          /\ call'.result = "ok" =>
                Fits(FieldOf(ADD_SUMMARY, "limit"), summaries'[Id].limit)
          /\ ~Fits(FieldOf(ADD_SUMMARY, "limit"), call'.arg.num) =>
                call'.result = "ValueError" /\ summaries' = summaries
    /\ (CallOf("run_once") \/ CallOf("unload")) =>
          /\ call'.result # "FieldError"
          /\ \A i \in DOMAIN log' :
                log'[i].length = SizeOf(IF log'[i].ev = "add_summary"
                                        THEN ADD_SUMMARY ELSE DEL_SUMMARY)

C25_AcceptedParametersEncode == [][C25_Step]_vars

====
